---- MODULE Spec2Model ----
(***************************************************************************)
(* State-machine model of golang-boilerplate's database connection         *)
(* manager (internal/db/manager.go) and of the start-up and stop paths of   *)
(* cmd/server/main.go that drive it.                                        *)
(*                                                                          *)
(* Time is an integer clock `now` in the time-units of the source           *)
(* (seconds).  The zero value of time.Time is ZeroTime; the process starts  *)
(* at StartTime, at least one staleness window after it.                    *)
(***************************************************************************)
EXTENDS Integers, Sequences, FiniteSets, TLC

\* ------------------------------------------------------------------ bounds
MaxAttempts == 3   \* configured retry-attempts range over 0..MaxAttempts
MaxTime == 50      \* the clock stops advancing here
TimeStep == 5      \* granularity of the clock
StopTime == 20     \* the clock stops advancing here in runs that include shutdown
MaxCalls == 1      \* probes the HTTP caller starts (HealthCheck, stale FastHealthCheck)
MaxAsync == 1      \* goroutines FastHealthCheck may have in flight

\* ------------------------------------------------------- program constants
StaleAfter == 10       \* manager.go:176  10*time.Second
HealthInterval == 30   \* manager.go:230  30*time.Second
MetricsInterval == 10  \* manager.go:240  10*time.Second
ZeroTime == 0          \* manager.go:55   LastCheck zero value of time.Time

StartTime == ZeroTime + StaleAfter

\* config.Config as read by the manager; immutable after load.
Config(n, maxOpen, maxIdle) ==
  [retryAttempts |-> n, retryDelay |-> 1, maxOpen |-> maxOpen, maxIdle |-> maxIdle,
   healthTimeout |-> 5]

\* Every retry-attempts value, under two settings of the pool bounds.
Configs == { Config(n, b[1], b[2]) : n \in 0..MaxAttempts, b \in {<<2, 1>>, <<3, 2>>} }

\* The configurations the running manager is explored under.
RunConfigs == { Config(2, 3, 2) }

\* sql.DBStats as returned by sqlDB.Stats(): (open, idle, inUse, waitCount, waitDuration)
PoolStats ==
  { [open |-> 1, idle |-> 1, inUse |-> 0, waitCount |-> 0, waitDuration |-> 0],
    [open |-> 2, idle |-> 0, inUse |-> 2, waitCount |-> 1, waitDuration |-> 3] }

None == <<"none", 0>>
Main == <<"main", 0>>
Hc == <<"hc", 0>>          \* goroutine of startHealthCheck
Mc == <<"mc", 0>>          \* goroutine of startMetricsCollection
Caller == <<"caller", 0>>  \* an HTTP handler using the manager
Async == { <<"bg", i>> : i \in 1..MaxAsync }   \* `go dm.HealthCheck()`
Procs == {Main, Hc, Mc, Caller} \cup Async

VARIABLES
  cfg,          \* dm.config
  now,          \* the clock
  storeUp,      \* whether the database target answers
  phase,        \* position of the main goroutine
  attempt,      \* connectWithRetry: loop variable
  lastErr,      \* connectWithRetry: lastErr
  trace,        \* connectWithRetry: "connect"/"sleep" events so far
  ctorErr,      \* error returned by NewDatabaseManager / NewPostgresDB ("" = nil)
  manager,      \* whether NewDatabaseManager returned a manager
  opened,       \* handles gorm.Open has produced
  db,           \* dm.db: 0 = nil, else the id of a handle
  healthStatus, \* dm.healthStatus
  metrics,      \* *dm.metrics
  mu,           \* dm.mu: the goroutine holding the exclusive lock, or None
  pc,           \* position of every goroutine other than main
  loc,          \* locals of the running HealthCheck / updateMetrics per goroutine
  hcNext,       \* next tick of the health ticker
  mcNext,       \* next tick of the metrics ticker
  closed,       \* sql.DB closed
  closeCalls,   \* calls of sqlDB.Close()
  closeRets,    \* sequence of results returned by DatabaseManager.Close()
  stopErr,      \* result of the OnStop hook ("" = nil, "unset" before)
  calls,        \* probes the caller has started
  ret,          \* the result the caller's last operation returned
  gen,          \* updateHealthStatus calls that took the lock so far
  mgen,         \* updateMetrics calls that took the lock so far
  hsTag,        \* per field of dm.healthStatus: the number of the call that wrote it
  mTag          \* per field of dm.metrics: the number of the call that wrote it

\* One HTTP request on its way through the middleware chain of its route.
VARIABLES
  request,      \* the request, its route and what the auth service answers for it
  store,        \* echo.Context: the value c.Set put under the claims key
  written,      \* the responses written with c.JSON, in order
  depth,        \* index in the chain of the handler that runs (0 = back in echo)
  dir,          \* "call": the handler at depth starts; "return": its next(c) is over
  carry,        \* what the handler below returned, or the panic that unwinds
  entered       \* indices of the handlers that were invoked

dmVars == <<cfg, now, storeUp, phase, attempt, lastErr, trace, ctorErr, manager,
            opened, db, healthStatus, metrics, mu, pc, loc, hcNext, mcNext, closed,
            closeCalls, closeRets, stopErr, calls, ret, gen, mgen, hsTag, mTag>>

webVars == <<request, store, written, depth, dir, carry, entered>>

\* One call of userService.Create or userService.Update.
VARIABLES
  ureq,         \* the call: its request, the stored user, what the repositories answer
  uloc,         \* the call's position and locals
  uwrites,      \* the calls of userRepo.Create and userRepo.Update, in order
  ures          \* what the call returned

\* One call of UploadFiles.
VARIABLES
  files,        \* files[i]: the error UploadFile returns for file i ("" = nil)
  ch,           \* the buffered channel's content
  workers,      \* position of the upload goroutine of each file
  collector     \* UploadFiles itself: loop index, result.Files, what it returned

svcVars == <<ureq, uloc, uwrites, ures, files, ch, workers, collector>>

vars == <<dmVars, webVars, svcVars>>

ctorVars == <<attempt, lastErr, trace, ctorErr, manager, opened, db>>
stopVars == <<closed, closeCalls, closeRets, stopErr>>
envVars == <<storeUp>>
histVars == <<gen, mgen, hsTag, mTag>>

\* ------------------------------------------------------------ data types
\* &ConnectionMetrics{}  (manager.go:54)
ZeroMetrics ==
  [TotalConnections |-> 0, OpenConnections |-> 0, IdleConnections |-> 0,
   InUseConnections |-> 0, WaitCount |-> 0, WaitDuration |-> 0,
   MaxOpenConnections |-> 0, MaxIdleConnections |-> 0]

\* HealthStatus{IsHealthy: false}  (manager.go:55-57)
ZeroStatus ==
  [IsHealthy |-> FALSE, LastCheck |-> ZeroTime, LastError |-> "", ResponseTime |-> 0,
   RetryCount |-> 0]

\* The four fields updateHealthStatus writes.
StatusFields == <<"IsHealthy", "LastCheck", "LastError", "ResponseTime">>

\* The eight fields updateMetrics writes, in the order of the assignments.
MetricsFields ==
  <<"TotalConnections", "OpenConnections", "IdleConnections", "InUseConnections",
    "WaitCount", "WaitDuration", "MaxOpenConnections", "MaxIdleConnections">>

Range(q) == {q[i] : i \in 1..Len(q)}

\* Locals of a goroutine inside HealthCheck or updateMetrics.
ZeroLoc == [start |-> 0, err |-> "", rt |-> 0, idx |-> 0,
            stats |-> CHOOSE s \in PoolStats : TRUE, w |-> 0]

\* A returned result as the caller keeps it: the operation, the HealthStatus or
\* ConnectionMetrics copy with the writer of each copied field, whether the
\* call started a goroutine, the status writes before it, for HealthCheck the
\* outcome of the call's own probe, and for FastHealthCheck whether the call
\* came within the staleness window of a healthy snapshot that the call before
\* it had returned.  `ref` tells whether the result shares the manager's memory
\* instead of being a value of its own.
NoOwn == [err |-> "", rt |-> 0]
NoRet == [op |-> "none", snap |-> ZeroStatus, msnap |-> ZeroMetrics,
          tags |-> <<0>>, spawned |-> FALSE, gen |-> 0, own |-> NoOwn,
          again |-> FALSE, ref |-> FALSE]

InitWith(configs) ==
  /\ cfg \in configs
  /\ now = StartTime
  /\ storeUp \in BOOLEAN
  /\ phase = "new"
  /\ attempt = 0
  /\ lastErr = ""
  /\ trace = <<>>
  /\ ctorErr = ""
  /\ manager = FALSE
  /\ opened = 0
  /\ db = 0
  /\ healthStatus = ZeroStatus
  /\ metrics = ZeroMetrics
  /\ mu = None
  /\ pc = [p \in Procs |-> "unborn"]
  /\ loc = [p \in Procs |-> ZeroLoc]
  /\ hcNext = 0
  /\ mcNext = 0
  /\ closed = FALSE
  /\ closeCalls = 0
  /\ closeRets = <<>>
  /\ stopErr = "unset"
  /\ calls = 0
  /\ ret = NoRet
  /\ gen = 0
  /\ mgen = 0
  /\ hsTag = [f \in Range(StatusFields) |-> 0]
  /\ mTag = [f \in Range(MetricsFields) |-> 0]

\* c.Get(key) when nothing was set: a nil interface value.
NoValue == [type |-> "nil", roles |-> <<>>]

\* No call has returned and no panic unwinds.
NoCarry == [kind |-> "none", isError |-> FALSE]

\* No request is being served.
NoRequest ==
  [chain |-> <<>>, header |-> <<>>, validateErr |-> FALSE, active |-> FALSE,
   decodeErr |-> FALSE, roles |-> <<>>, required |-> <<>>, rptErr |-> FALSE,
   rptDecodeErr |-> FALSE, permissions |-> <<>>, resource |-> "", scope |-> "",
   handler |-> "ok"]

WebIdle ==
  /\ request = NoRequest
  /\ store = NoValue
  /\ written = <<>>
  /\ depth = 0
  /\ dir = "idle"
  /\ carry = NoCarry
  /\ entered = {}

\* No call of the user service is in progress.
NoUserCall ==
  [kind |-> "none", companies |-> <<>>, provided |-> FALSE, stored |-> {},
   userFound |-> FALSE, missing |-> {}, writeErr |-> FALSE]

\* The locals of a call of the user service that has not started.
NoLocals == [pc |-> "idle", idx |-> 0, companies |-> <<>>, todo |-> {}, looked |-> <<>>]

\* A call of the user service has not returned.
NoResult == [kind |-> "none", resource |-> "", id |-> "", companies |-> <<>>]

\* UploadFiles has not returned.
NoCollector == [spawned |-> 0, i |-> 0, result |-> <<>>, ret |-> "none"]

SvcIdle ==
  /\ ureq = NoUserCall
  /\ uloc = NoLocals
  /\ uwrites = <<>>
  /\ ures = NoResult
  /\ files = <<>>
  /\ ch = <<>>
  /\ workers = <<>>
  /\ collector = NoCollector

\* The whole system, from process start.
Init == InitWith(RunConfigs) /\ WebIdle /\ SvcIdle

\* Start-up alone, under every configuration.
InitStartup == InitWith(Configs) /\ WebIdle /\ SvcIdle


\* ------------------------------------------------------------ helpers
SetStatus(f, v) == [healthStatus EXCEPT ![f] = v]

\* (*gorm.DB).DB() on handle h: the postgres dialector's pool is a *sql.DB, so
\* every handle gorm.Open returned yields it; a nil *gorm.DB is dereferenced.
SqlDB(h) == IF h = 0 THEN "panic" ELSE "ok"

\* Faulty variant: the ping runs under context.Background(), with no deadline.
Deadline_Background(start, timeout) == start + timeout + MaxTime

\* ctx, cancel := context.WithTimeout(context.Background(), timeout), made at
\* start: the time at which ctx is done.
Deadline(start, timeout) == start + timeout

\* sqlDB.PingContext(ctx) started at `start`: what the target answers now.
\* A closed pool refuses at once; an unreachable target refuses, or leaves the
\* ping hanging until the context's deadline.
PingOutcomes(start, timeout) ==
  IF closed THEN {"sql: database is closed"}
  ELSE IF storeUp THEN {""}
  ELSE {"connection refused"} \cup
       (IF now >= Deadline(start, timeout) THEN {"context deadline exceeded"} ELSE {})

\* Faulty variant: the pool's current counts are reported as its bounds.
MetricsOf_StatsAsBounds(s, c) ==
  [TotalConnections |-> s.open, OpenConnections |-> s.open, IdleConnections |-> s.idle,
   InUseConnections |-> s.inUse, WaitCount |-> s.waitCount,
   WaitDuration |-> s.waitDuration, MaxOpenConnections |-> s.open,
   MaxIdleConnections |-> s.idle]

\* The ConnectionMetrics value one updateMetrics call writes from stats s.
MetricsOf(s, c) ==
  [TotalConnections |-> s.open, OpenConnections |-> s.open, IdleConnections |-> s.idle,
   InUseConnections |-> s.inUse, WaitCount |-> s.waitCount,
   WaitDuration |-> s.waitDuration, MaxOpenConnections |-> c.maxOpen,
   MaxIdleConnections |-> c.maxIdle]

\* The process is running: Fatalf has not ended it.  After the stop hook returned
\* the goroutines run on until the process is gone.
Alive == phase # "exited"

\* Goroutine p is scheduled.  The sections under dm.mu.Lock() hold no blocking
\* call, and what the others do outside the lock commutes with them: the holder
\* of the exclusive lock runs to its Unlock before another goroutine steps.
Runs(p) == Alive /\ mu \in {None, p}

\* ------------------------------------------------------------ environment
\* Positions in which a goroutine waits for time to pass: not started, waiting
\* for a ticker or a request, or waiting for the answer to a ping.
Waiting == {"unborn", "wait", "idle", "hc_ping", "panic"}

\* Time passes while the server runs.  A goroutine that can run does so before
\* the clock moves, a due tick is delivered at once, and PingContext returns no
\* later than its context's deadline.
Tick(limit) ==
  /\ now + TimeStep <= limit
  /\ phase = "serving"
  /\ \A p \in Procs : pc[p] \in Waiting
  /\ \A p \in Procs :
       pc[p] = "hc_ping" => now + TimeStep <= Deadline(loc[p].start, cfg.healthTimeout)
  /\ pc[Hc] = "wait" => now < hcNext
  /\ pc[Mc] = "wait" => now < mcNext
  /\ now' = now + TimeStep
  /\ UNCHANGED <<svcVars, webVars, cfg, envVars, phase, ctorVars, healthStatus, metrics, mu, pc, loc,
                 hcNext, mcNext, stopVars, calls, ret, histVars>>

\* The database target becomes unreachable, or reachable again.
Flap ==
  /\ Alive
  /\ mu = None
  /\ storeUp' = ~storeUp
  /\ UNCHANGED <<svcVars, webVars, cfg, now, phase, ctorVars, healthStatus, metrics, mu, pc, loc,
                 hcNext, mcNext, stopVars, calls, ret, histVars>>

\* ------------------------------------------------- NewDatabaseManager
\* manager := &DatabaseManager{...}; manager.connectWithRetry() is entered.
NewDatabaseManager ==
  /\ Runs(Main)
  /\ phase = "new"
  /\ healthStatus' = ZeroStatus
  /\ metrics' = ZeroMetrics
  /\ attempt' = 1
  /\ lastErr' = ""
  /\ phase' = "loop"
  /\ UNCHANGED <<svcVars, webVars, cfg, now, envVars, trace, ctorErr, manager, opened, db, mu, pc, loc,
                 hcNext, mcNext, stopVars, calls, ret, histVars>>

\* The error connect() returns ("" = nil): gorm.Open, then db.DB(), then the ping.
ConnectErrors ==
  IF storeUp THEN {""} ELSE {"open: connection refused", "ping: connection refused"}

\* Faulty variant: sleeps after every failed attempt, the last one included.
SleepsAfter_Always(a, n) == a <= n

\* After a failed connect(): sleep only when another attempt follows.
SleepsAfter(a, n) == a < n

\* One iteration of connectWithRetry whose connect() fails with err.
ConnectFails(err) ==
  /\ Runs(Main)
  /\ phase = "loop"
  /\ attempt <= cfg.retryAttempts
  /\ err # ""
  /\ trace' = Append(trace, "connect")
  /\ lastErr' = err
  /\ healthStatus' = SetStatus("RetryCount", attempt)
  /\ IF SleepsAfter(attempt, cfg.retryAttempts)
       THEN phase' = "sleep" /\ attempt' = attempt
       ELSE phase' = "loop" /\ attempt' = attempt + 1
  /\ UNCHANGED <<svcVars, webVars, cfg, now, envVars, ctorErr, manager, opened, db, metrics, mu, pc, loc,
                 hcNext, mcNext, stopVars, calls, ret, histVars>>

\* time.Sleep(dm.config.DatabaseRetryDelay), then attempt++.
RetrySleep ==
  /\ Runs(Main)
  /\ phase = "sleep"
  /\ trace' = Append(trace, "sleep")
  /\ now' = now + cfg.retryDelay
  /\ attempt' = attempt + 1
  /\ phase' = "loop"
  /\ UNCHANGED <<svcVars, webVars, cfg, envVars, lastErr, ctorErr, manager, opened, db, healthStatus,
                 metrics, mu, pc, loc, hcNext, mcNext, stopVars, calls, ret, histVars>>

\* connect() succeeds up to `dm.db = db`; dm.updateMetrics() is entered.
ConnectSucceeds ==
  /\ Runs(Main)
  /\ phase = "loop"
  /\ attempt <= cfg.retryAttempts
  /\ "" \in ConnectErrors
  /\ trace' = Append(trace, "connect")
  /\ opened' = opened + 1
  /\ db' = opened + 1
  /\ phase' = "connect_metrics"
  /\ pc' = [pc EXCEPT ![Main] = "um_lock"]
  /\ UNCHANGED <<svcVars, webVars, cfg, now, envVars, attempt, lastErr, ctorErr, manager, healthStatus,
                 metrics, mu, loc, hcNext, mcNext, stopVars, calls, ret, histVars>>

\* Faulty variant: the retry counter of the failed attempts is left standing.
ConnectedStatus_KeepsRetryCount(h) == [h EXCEPT !.IsHealthy = TRUE]

\* The status connectWithRetry leaves after a successful connect().
ConnectedStatus(h) == [h EXCEPT !.IsHealthy = TRUE, !.RetryCount = 0]

\* connect() returned nil: the success branch of connectWithRetry.
ConnectWithRetryOk ==
  /\ Runs(Main)
  /\ phase = "connected"
  /\ healthStatus' = ConnectedStatus(healthStatus)
  /\ lastErr' = ""
  /\ ctorErr' = ""
  /\ phase' = "cwr_ok"
  /\ UNCHANGED <<svcVars, webVars, cfg, now, envVars, attempt, trace, manager, opened, db, metrics, mu,
                 pc, loc, hcNext, mcNext, stopVars, calls, ret, histVars>>

\* The loop ran out: errors.DatabaseError("Failed to connect ... after retries").
ConnectWithRetryErr ==
  /\ Runs(Main)
  /\ phase = "loop"
  /\ attempt > cfg.retryAttempts
  /\ ctorErr' = "Failed to connect to database after retries"
  /\ phase' = "cwr_err"
  /\ UNCHANGED <<svcVars, webVars, cfg, now, envVars, attempt, lastErr, trace, manager, opened, db,
                 healthStatus, metrics, mu, pc, loc, hcNext, mcNext, stopVars, calls,
                 ret, histVars>>

\* Faulty variant: the routines are started before the error is looked at.
StartsRoutines_Always(err) == TRUE

\* Whether NewDatabaseManager starts the two routines, given connectWithRetry's error.
StartsRoutines(err) == err = ""

\* The rest of NewDatabaseManager after connectWithRetry returned.
NewDatabaseManagerReturn ==
  /\ Runs(Main)
  /\ phase \in {"cwr_ok", "cwr_err"}
  /\ IF ctorErr # ""
       THEN /\ ctorErr' = "Failed to initialize database manager"
            /\ manager' = FALSE
            /\ phase' = "ctor_failed"
       ELSE /\ ctorErr' = ""
            /\ manager' = TRUE
            /\ phase' = "ctor_ok"
  /\ pc' = IF StartsRoutines(ctorErr)
             THEN [pc EXCEPT ![Hc] = "spawned", ![Mc] = "spawned"]
             ELSE pc
  /\ UNCHANGED <<svcVars, webVars, cfg, now, envVars, attempt, lastErr, trace, opened, db, healthStatus,
                 metrics, mu, loc, hcNext, mcNext, stopVars, calls, ret, histVars>>

\* --------------------------------------------------- cmd/server/main.go
\* (*PostgresDB).NewPostgresDB: builds the manager and hands its error on.
NewPostgresDB ==
  /\ Runs(Main)
  /\ phase \in {"ctor_ok", "ctor_failed"}
  /\ phase' = IF ctorErr = "" THEN "pg_ok" ELSE "pg_err"
  /\ UNCHANGED <<svcVars, webVars, cfg, now, envVars, ctorVars, healthStatus, metrics, mu, pc, loc,
                 hcNext, mcNext, stopVars, calls, ret, histVars>>

\* Whether ProvideGormPostgres ends the process (logger.Sugar.Fatalf).
Fatal(err) == err # ""

\* ProvideGormPostgres after NewPostgresDB returned.
ProvideGormPostgres ==
  /\ Runs(Main)
  /\ phase \in {"pg_ok", "pg_err"}
  /\ phase' = IF Fatal(ctorErr) THEN "exited" ELSE "provided"
  /\ UNCHANGED <<svcVars, webVars, cfg, now, envVars, ctorVars, healthStatus, metrics, mu, pc, loc,
                 hcNext, mcNext, stopVars, calls, ret, histVars>>

\* The OnStart hook of NewHTTPServer: the server accepts requests.
OnStart ==
  /\ Runs(Main)
  /\ phase = "provided"
  /\ phase' = "serving"
  /\ pc' = [pc EXCEPT ![Caller] = "idle"]
  /\ UNCHANGED <<svcVars, webVars, cfg, now, envVars, ctorVars, healthStatus, metrics, mu, loc,
                 hcNext, mcNext, stopVars, calls, ret, histVars>>


\* ------------------------------------------------------- updateMetrics
\* Where updateMetrics returns to: connect() on the main goroutine, the
\* ticker loop on the metrics goroutine.
UmReturn(p) ==
  IF p = Main
    THEN /\ phase' = "connected"
         /\ pc' = [pc EXCEPT ![p] = "unborn"]
    ELSE /\ phase' = phase
         /\ pc' = [pc EXCEPT ![p] = "wait"]

\* dm.mu.Lock(); sqlDB, err := dm.db.DB(); stats := sqlDB.Stats()
UmLock(p) ==
  /\ Runs(p)
  /\ pc[p] = "um_lock"
  /\ mu = None
  /\ IF SqlDB(db) = "ok"
       THEN /\ \E s \in PoolStats :
                 loc' = [loc EXCEPT ![p] = [@ EXCEPT !.stats = s, !.idx = 1, !.w = mgen + 1]]
            /\ mu' = p
            /\ mgen' = mgen + 1
            /\ pc' = [pc EXCEPT ![p] = "um_write"]
       ELSE /\ loc' = loc
            /\ mu' = None
            /\ mgen' = mgen
            /\ pc' = [pc EXCEPT ![p] = "panic"]
  /\ UNCHANGED <<svcVars, webVars, cfg, now, envVars, phase, ctorVars, healthStatus, metrics, hcNext,
                 mcNext, stopVars, calls, ret, gen, hsTag, mTag>>

\* One of the eight assignments to dm.metrics; the deferred Unlock after the last.
UmWrite(p) ==
  /\ Runs(p)
  /\ pc[p] = "um_write"
  /\ LET i == loc[p].idx
         f == MetricsFields[i]
         m == [metrics EXCEPT ![f] = MetricsOf(loc[p].stats, cfg)[f]]
     IN /\ metrics' = m
        /\ mTag' = [mTag EXCEPT ![f] = loc[p].w]
        /\ IF i = Len(MetricsFields)
             THEN /\ mu' = None
                  /\ loc' = [loc EXCEPT ![p] = ZeroLoc]
                  /\ UmReturn(p)
             ELSE /\ mu' = mu
                  /\ loc' = [loc EXCEPT ![p].idx = i + 1]
                  /\ pc' = pc
                  /\ phase' = phase
  /\ UNCHANGED <<svcVars, webVars, cfg, now, envVars, ctorVars, healthStatus, hcNext, mcNext, stopVars,
                 calls, ret, gen, mgen, hsTag>>

\* startMetricsCollection: ticker := time.NewTicker(10 * time.Second)
StartMetricsCollection ==
  /\ Runs(Mc)
  /\ pc[Mc] = "spawned"
  /\ mcNext' = now + MetricsInterval
  /\ pc' = [pc EXCEPT ![Mc] = "wait"]
  /\ UNCHANGED <<svcVars, webVars, cfg, now, envVars, phase, ctorVars, healthStatus, metrics, mu, loc,
                 hcNext, stopVars, calls, ret, histVars>>

\* startMetricsCollection: for range ticker.C { dm.updateMetrics() }
McTick ==
  /\ Runs(Mc)
  /\ pc[Mc] = "wait"
  /\ now >= mcNext
  /\ mcNext' = mcNext + MetricsInterval
  /\ pc' = [pc EXCEPT ![Mc] = "um_lock"]
  /\ UNCHANGED <<svcVars, webVars, cfg, now, envVars, phase, ctorVars, healthStatus, metrics, mu, loc,
                 hcNext, stopVars, calls, ret, histVars>>

\* --------------------------------------------------------- HealthCheck
\* Faulty variant: GetMetrics hands out dm.metrics, the pointer, not the struct.
ByValue_MetricsPointer(op) == op # "GetMetrics"

\* Whether operation op returns a value of its own: `return dm.healthStatus`
\* copies the struct, `return *dm.metrics` copies what the pointer refers to,
\* and every field of both structs is a value (bool, int, string, time).
ByValue(op) == TRUE

\* The caller's last call was a FastHealthCheck that returned a healthy snapshot
\* from the cache, and that snapshot's LastCheck is still within the window.
FollowsFresh ==
  /\ ret.op = "FastHealthCheck"
  /\ ~ret.spawned
  /\ ret.snap.IsHealthy
  /\ now - ret.snap.LastCheck < StaleAfter

\* The result of a call that copied dm.healthStatus.
StatusResult(op, spawned, own) ==
  [op |-> op, snap |-> healthStatus, msnap |-> ZeroMetrics,
   tags |-> [i \in 1..Len(StatusFields) |-> hsTag[StatusFields[i]]],
   spawned |-> spawned, gen |-> gen, own |-> own,
   again |-> (op = "FastHealthCheck" /\ FollowsFresh), ref |-> ~ByValue(op)]

\* The result of a call that copied *dm.metrics.
MetricsResult(op) ==
  [op |-> op, snap |-> ZeroStatus, msnap |-> metrics,
   tags |-> [i \in 1..Len(MetricsFields) |-> mTag[MetricsFields[i]]],
   spawned |-> FALSE, gen |-> gen, own |-> NoOwn, again |-> FALSE,
   ref |-> ~ByValue(op)]

\* Faulty variant: HealthCheck takes the exclusive lock before it pings.
HcBegin_UnderLock(p) ==
  /\ Runs(p)
  /\ pc[p] = "hc_begin"
  /\ mu = None
  /\ mu' = p
  /\ loc' = [loc EXCEPT ![p] = [ZeroLoc EXCEPT !.start = now]]
  /\ pc' = [pc EXCEPT ![p] = "hc_ping"]
  /\ UNCHANGED <<svcVars, webVars, cfg, now, envVars, phase, ctorVars, healthStatus, metrics, hcNext,
                 mcNext, stopVars, calls, ret, histVars>>

\* start := time.Now(); sqlDB, err := dm.db.DB()
HcBegin(p) ==
  /\ Runs(p)
  /\ pc[p] = "hc_begin"
  /\ IF SqlDB(db) = "ok"
       THEN /\ loc' = [loc EXCEPT ![p] = [ZeroLoc EXCEPT !.start = now]]
            /\ pc' = [pc EXCEPT ![p] = "hc_ping"]
       ELSE /\ loc' = loc
            /\ pc' = [pc EXCEPT ![p] = "panic"]
  /\ UNCHANGED <<svcVars, webVars, cfg, now, envVars, phase, ctorVars, healthStatus, metrics, mu, hcNext,
                 mcNext, stopVars, calls, ret, histVars>>

\* time.Since(start), the third argument of updateHealthStatus.
Since(start) == now - start

\* sqlDB.PingContext(ctx) returns; the arguments of updateHealthStatus are evaluated.
HcPing(p) ==
  /\ Runs(p)
  /\ pc[p] = "hc_ping"
  /\ \E e \in PingOutcomes(loc[p].start, cfg.healthTimeout) :
       loc' = [loc EXCEPT ![p] = [@ EXCEPT !.err = e, !.rt = Since(loc[p].start)]]
  /\ pc' = [pc EXCEPT ![p] = "hs_lock"]
  /\ UNCHANGED <<svcVars, webVars, cfg, now, envVars, phase, ctorVars, healthStatus, metrics, mu, hcNext,
                 mcNext, stopVars, calls, ret, histVars>>

\* Faulty variant: updateHealthStatus goes on without taking the lock.
HsLock_NoLock(p) ==
  /\ Runs(p)
  /\ pc[p] = "hs_lock"
  /\ gen' = gen + 1
  /\ loc' = [loc EXCEPT ![p] = [@ EXCEPT !.idx = 1, !.w = gen + 1]]
  /\ pc' = [pc EXCEPT ![p] = "hs_write"]
  /\ UNCHANGED <<svcVars, webVars, cfg, now, envVars, phase, ctorVars, healthStatus, metrics, mu, hcNext,
                 mcNext, stopVars, calls, ret, mgen, hsTag, mTag>>

\* updateHealthStatus: dm.mu.Lock()
HsLock(p) ==
  /\ Runs(p)
  /\ pc[p] = "hs_lock"
  /\ mu = None
  /\ mu' = p
  /\ gen' = gen + 1
  /\ loc' = [loc EXCEPT ![p] = [@ EXCEPT !.idx = 1, !.w = gen + 1]]
  /\ pc' = [pc EXCEPT ![p] = "hs_write"]
  /\ UNCHANGED <<svcVars, webVars, cfg, now, envVars, phase, ctorVars, healthStatus, metrics, hcNext,
                 mcNext, stopVars, calls, ret, mgen, hsTag, mTag>>

\* The value updateHealthStatus(isHealthy, lastError, responseTime) assigns to field f:
\* isHealthy is err == nil at each of HealthCheck's three call sites.
StatusValue(f, err, rt) ==
  CASE f = "IsHealthy" -> (err = "")
    [] f = "LastCheck" -> now
    [] f = "LastError" -> err
    [] f = "ResponseTime" -> rt

\* One of the four assignments of updateHealthStatus; the deferred Unlock after the last.
HsWrite(p) ==
  /\ Runs(p)
  /\ pc[p] = "hs_write"
  /\ LET i == loc[p].idx
         f == StatusFields[i]
         h == SetStatus(f, StatusValue(f, loc[p].err, loc[p].rt))
     IN /\ healthStatus' = h
        /\ hsTag' = [hsTag EXCEPT ![f] = loc[p].w]
        /\ IF i = Len(StatusFields)
             THEN /\ mu' = None
                  /\ pc' = [pc EXCEPT ![p] = "hc_ret"]
                  /\ loc' = loc
             ELSE /\ mu' = mu
                  /\ pc' = pc
                  /\ loc' = [loc EXCEPT ![p].idx = i + 1]
  /\ UNCHANGED <<svcVars, webVars, cfg, now, envVars, phase, ctorVars, metrics, hcNext, mcNext, stopVars,
                 calls, ret, gen, mgen, mTag>>

\* Faulty variant: the readers do not take the lock.
RLockGranted_NoLock == TRUE

\* dm.mu.RLock() is granted when no goroutine holds the exclusive lock.  Every
\* read section of the manager (getHealthStatus, FastHealthCheck, GetMetrics)
\* runs to its deferred RUnlock without blocking, so it is one step.
RLockGranted == mu = None

\* Faulty variant: the ticker loop of startHealthCheck ends with its first check.
AfterCheck_LoopEnds(p) ==
  IF p = Caller THEN "idle" ELSE "unborn"

\* Where a goroutine goes on after HealthCheck returned: the HTTP handler is
\* done, the ticker loop waits for its next tick, `go dm.HealthCheck()` ends.
AfterCheck(p) ==
  IF p = Caller THEN "idle" ELSE IF p = Hc THEN "wait" ELSE "unborn"

\* return dm.getHealthStatus(): the ticker loop drops the result, so does the
\* goroutine FastHealthCheck started; the HTTP caller keeps it.
HcReturn(p) ==
  /\ Alive
  /\ pc[p] = "hc_ret"
  /\ RLockGranted
  /\ IF p = Caller
       THEN /\ ret' = StatusResult("HealthCheck", FALSE,
                                    [err |-> loc[p].err, rt |-> loc[p].rt])
            /\ pc' = [pc EXCEPT ![p] = AfterCheck(p)]
       ELSE /\ ret' = ret
            /\ pc' = [pc EXCEPT ![p] = AfterCheck(p)]
  /\ loc' = [loc EXCEPT ![p] = ZeroLoc]
  /\ UNCHANGED <<svcVars, webVars, cfg, now, envVars, phase, ctorVars, healthStatus, metrics, mu, hcNext,
                 mcNext, stopVars, calls, histVars>>

\* startHealthCheck: ticker := time.NewTicker(30 * time.Second)
StartHealthCheck ==
  /\ Runs(Hc)
  /\ pc[Hc] = "spawned"
  /\ hcNext' = now + HealthInterval
  /\ pc' = [pc EXCEPT ![Hc] = "wait"]
  /\ UNCHANGED <<svcVars, webVars, cfg, now, envVars, phase, ctorVars, healthStatus, metrics, mu, loc,
                 mcNext, stopVars, calls, ret, histVars>>

\* startHealthCheck: for range ticker.C { dm.HealthCheck() }
HcTick ==
  /\ Runs(Hc)
  /\ pc[Hc] = "wait"
  /\ now >= hcNext
  /\ hcNext' = hcNext + HealthInterval
  /\ pc' = [pc EXCEPT ![Hc] = "hc_begin"]
  /\ UNCHANGED <<svcVars, webVars, cfg, now, envVars, phase, ctorVars, healthStatus, metrics, mu, loc,
                 mcNext, stopVars, calls, ret, histVars>>


\* ------------------------------------------------- the manager's readers
\* Faulty variant: the cached status counts as recent only in the instant it was recorded.
IsFresh_SameInstant(lastCheck) == now = lastCheck

\* Faulty variant: a status exactly one window old still counts as recent.
IsFresh_Inclusive(lastCheck) == now - lastCheck <= StaleAfter

\* FastHealthCheck: time.Since(dm.healthStatus.LastCheck) < 10*time.Second
IsFresh(lastCheck) == now - lastCheck < StaleAfter

\* The caller invokes HealthCheck().
CallHealthCheck ==
  /\ phase = "serving"
  /\ Runs(Caller)
  /\ pc[Caller] = "idle"
  /\ calls < MaxCalls
  /\ calls' = calls + 1
  /\ pc' = [pc EXCEPT ![Caller] = "hc_begin"]
  /\ UNCHANGED <<svcVars, webVars, cfg, now, envVars, phase, ctorVars, healthStatus, metrics, mu, loc,
                 hcNext, mcNext, stopVars, ret, histVars>>

\* The caller invokes FastHealthCheck(): the cached status when it is recent,
\* else `go dm.HealthCheck()` and the cached status.
FastHealthCheck ==
  /\ phase = "serving"
  /\ Alive
  /\ pc[Caller] = "idle"
  /\ RLockGranted
  /\ IF IsFresh(healthStatus.LastCheck)
       THEN /\ pc' = pc
            /\ calls' = calls
            /\ ret' = StatusResult("FastHealthCheck", FALSE, NoOwn)
       ELSE /\ calls < MaxCalls
            /\ calls' = calls + 1
            /\ \E g \in Async :
                 /\ pc[g] = "unborn"
                 /\ pc' = [pc EXCEPT ![g] = "hc_begin"]
            /\ ret' = StatusResult("FastHealthCheck", TRUE, NoOwn)
  /\ UNCHANGED <<svcVars, webVars, cfg, now, envVars, phase, ctorVars, healthStatus, metrics, mu, loc,
                 hcNext, mcNext, stopVars, histVars>>

\* The caller invokes GetHealthStatus(), or IsHealthy(), which hands on the
\* IsHealthy field of the same copy: return dm.getHealthStatus().
GetHealthStatus ==
  /\ phase = "serving"
  /\ Alive
  /\ pc[Caller] = "idle"
  /\ RLockGranted
  /\ ret' = StatusResult("GetHealthStatus", FALSE, NoOwn)
  /\ UNCHANGED <<svcVars, webVars, cfg, now, envVars, phase, ctorVars, healthStatus, metrics, mu, pc, loc,
                 hcNext, mcNext, stopVars, calls, histVars>>

\* The caller invokes GetMetrics(): return *dm.metrics under RLock.
GetMetrics ==
  /\ phase = "serving"
  /\ Alive
  /\ pc[Caller] = "idle"
  /\ RLockGranted
  /\ ret' = MetricsResult("GetMetrics")
  /\ UNCHANGED <<svcVars, webVars, cfg, now, envVars, phase, ctorVars, healthStatus, metrics, mu, pc, loc,
                 hcNext, mcNext, stopVars, calls, histVars>>

\* What the caller finds in the result it holds.
Held ==
  [snap |-> IF ret.ref /\ ret.op # "GetMetrics" THEN healthStatus ELSE ret.snap,
   msnap |-> IF ret.ref /\ ret.op = "GetMetrics" THEN metrics ELSE ret.msnap]

\* The caller overwrites the fields of the result it holds; a result that
\* shares the manager's memory takes the manager's struct with it.
CallerEdits ==
  /\ phase = "serving"
  /\ Alive
  /\ pc[Caller] = "idle"
  /\ ret.op # "none"
  /\ Held # [snap |-> ZeroStatus, msnap |-> ZeroMetrics]
  /\ ret' = [ret EXCEPT !.snap = ZeroStatus, !.msnap = ZeroMetrics]
  /\ healthStatus' = IF ret.ref /\ ret.op # "GetMetrics" THEN ZeroStatus ELSE healthStatus
  /\ metrics' = IF ret.ref /\ ret.op = "GetMetrics" THEN ZeroMetrics ELSE metrics
  /\ UNCHANGED <<svcVars, webVars, cfg, now, envVars, phase, ctorVars, mu, pc, loc, hcNext, mcNext,
                 stopVars, calls, histVars>>

\* ---------------------------------------------------------------- stop
\* Faulty variant: the error of sqlDB.Close() is logged and dropped.
CloseResult_Swallowed(closeErr) == ""

\* What Close() returns ("" = nil) when sqlDB.Close() returned closeErr.
CloseResult(closeErr) ==
  IF closeErr = "" THEN "" ELSE "Failed to close database connection"

\* How often Close() calls sqlDB.Close() on handle h.
PoolCloses(h) == IF h # 0 /\ SqlDB(h) = "ok" THEN 1 ELSE 0

\* Faulty variant: Close() also resets dm.db to nil.
Close_DropsHandle(closeErr) ==
  /\ mu = None
  /\ closeCalls' = closeCalls + PoolCloses(db)
  /\ closed' = (closed \/ PoolCloses(db) > 0)
  /\ closeRets' = Append(closeRets, IF db = 0 THEN "" ELSE CloseResult(closeErr))
  /\ db' = 0
  /\ UNCHANGED <<svcVars, webVars, cfg, now, envVars, attempt, lastErr, trace, ctorErr, manager, opened,
                 healthStatus, metrics, mu, pc, loc, hcNext, mcNext, calls, ret, histVars>>

\* DatabaseManager.Close(): under the exclusive lock, close the pool if there is one.
Close(closeErr) ==
  /\ mu = None
  /\ closeCalls' = closeCalls + PoolCloses(db)
  /\ closed' = (closed \/ PoolCloses(db) > 0)
  /\ closeRets' = Append(closeRets, IF db = 0 THEN "" ELSE CloseResult(closeErr))
  /\ UNCHANGED <<svcVars, webVars, cfg, now, envVars, ctorVars, healthStatus, metrics, mu, pc, loc, hcNext,
                 mcNext, calls, ret, histVars>>

\* (*PostgresDB).Close hands the call to the manager.
PostgresDBClose(closeErr) == Close(closeErr)

\* What sqlDB.Close() may return ("" = nil).
CloseErrors == {"", "close: broken pipe"}

\* OnStop: srv.Shutdown(shutdownCtx) is called and closes the listener, so that
\* srv.Serve(ln) in the goroutine of OnStart returns http.ErrServerClosed.
OnStopBegin ==
  /\ Runs(Main)
  /\ phase = "serving"
  /\ phase' = "shutting"
  /\ UNCHANGED <<svcVars, webVars, cfg, now, envVars, ctorVars, healthStatus, metrics, mu, pc, loc, hcNext,
                 mcNext, stopVars, calls, ret, histVars>>

\* Whether the goroutine of OnStart panics on the error srv.Serve returned:
\* `if err != nil { logger.Sugar.Panicf(...) }`.
ServePanics(err) == err # ""

\* The goroutine of OnStart after srv.Serve(ln) returned, which it does once
\* Shutdown has closed the listener: the panic of Panicf ends the process.
ServeReturns ==
  /\ phase \in {"shutting", "stop_close", "stopped"}
  /\ ServePanics("http: Server closed")
  /\ phase' = "exited"
  /\ UNCHANGED <<svcVars, webVars, cfg, now, envVars, ctorVars, healthStatus, metrics, mu, pc, loc, hcNext,
                 mcNext, stopVars, calls, ret, histVars>>

\* OnStop: srv.Shutdown(shutdownCtx) returns err ("" once the handlers are done).
OnStopShutdown(err) ==
  /\ Runs(Main)
  /\ phase = "shutting"
  /\ err = "" => pc[Caller] = "idle"
  /\ IF err # ""
       THEN phase' = "stopped" /\ stopErr' = err
       ELSE phase' = "stop_close" /\ stopErr' = stopErr
  /\ UNCHANGED <<svcVars, webVars, cfg, now, envVars, ctorVars, healthStatus, metrics, mu, pc, loc, hcNext,
                 mcNext, closed, closeCalls, closeRets, calls, ret, histVars>>

\* OnStop: db.Close(), whose error, or nil, the hook returns.
OnStopClose(closeErr) ==
  /\ phase = "stop_close"
  /\ PostgresDBClose(closeErr)
  /\ stopErr' = closeRets'[Len(closeRets')]
  /\ phase' = "stopped"

\* --------------------------------------------------------- specification
\* The main goroutine from process start until the server accepts requests or the
\* process ends, and the start of the two routines.
NextStartup ==
  \/ Flap
  \/ NewDatabaseManager
  \/ \E err \in ConnectErrors : ConnectFails(err)
  \/ RetrySleep
  \/ ConnectSucceeds
  \/ ConnectWithRetryOk
  \/ ConnectWithRetryErr
  \/ NewDatabaseManagerReturn
  \/ NewPostgresDB
  \/ ProvideGormPostgres
  \/ OnStart
  \/ UmLock(Main)
  \/ UmWrite(Main)
  \/ StartMetricsCollection
  \/ StartHealthCheck

\* The metrics routine, the on-demand and asynchronous health checks and the getters.
NextServing ==
  \/ UmLock(Mc)
  \/ UmWrite(Mc)
  \/ McTick
  \/ \E p \in {Caller} \cup Async : HcBegin(p)
  \/ \E p \in {Caller} \cup Async : HcPing(p)
  \/ \E p \in {Caller} \cup Async : HsLock(p)
  \/ \E p \in {Caller} \cup Async : HsWrite(p)
  \/ \E p \in {Caller} \cup Async : HcReturn(p)
  \/ CallHealthCheck
  \/ FastHealthCheck
  \/ GetHealthStatus
  \/ GetMetrics

\* The periodic health check.
NextPeriodic ==
  \/ HcTick
  \/ HcBegin(Hc)
  \/ HcPing(Hc)
  \/ HsLock(Hc)
  \/ HsWrite(Hc)
  \/ HcReturn(Hc)

\* The stop hook.
NextStop ==
  \/ OnStopBegin
  \/ ServeReturns
  \/ \E err \in {"", "context deadline exceeded"} : OnStopShutdown(err)
  \/ \E closeErr \in CloseErrors : OnStopClose(closeErr)

\* Start-up alone, for every configuration.
SpecStartup == InitStartup /\ [][NextStartup]_vars

\* The serving process up to MaxTime, long enough for the periodic health check.
Next ==
  \/ Tick(MaxTime)
  \/ NextStartup
  \/ NextServing
  \/ NextPeriodic

Spec == Init /\ [][Next]_vars

\* The serving process up to StopTime, and its shutdown at any moment.
NextLifecycle ==
  \/ Tick(StopTime)
  \/ NextStartup
  \/ NextServing
  \/ NextStop

SpecStop == Init /\ [][NextLifecycle]_vars

\* The serving process up to StopTime with a caller that edits what it was handed.
NextEditing ==
  \/ Tick(StopTime)
  \/ NextStartup
  \/ NextServing
  \/ CallerEdits

SpecEditing == Init /\ [][NextEditing]_vars

\* ------------------------------------------------- the unbounded lifetime
\* A point in time seen one health interval later; what lies further back than
\* the zero time is as old as the zero time.
Earlier(t) == IF t - HealthInterval < ZeroTime THEN ZeroTime ELSE t - HealthInterval

\* Time passes beyond MaxTime: the clock and every recorded point in time are
\* set back by one health interval, which keeps every difference the manager
\* computes (the age of LastCheck against the staleness window, time.Since(start),
\* the distance to the next ticks), and the counters of past writes start anew.
Rewind ==
  /\ now + TimeStep > MaxTime
  /\ phase = "serving"
  /\ \A p \in Procs : pc[p] \in Waiting
  /\ \A p \in Procs :
       pc[p] = "hc_ping" => now + TimeStep <= Deadline(loc[p].start, cfg.healthTimeout)
  /\ pc[Hc] = "wait" => now < hcNext
  /\ pc[Mc] = "wait" => now < mcNext
  /\ now' = now + TimeStep - HealthInterval
  /\ hcNext' = hcNext - HealthInterval
  /\ mcNext' = mcNext - HealthInterval
  /\ healthStatus' = [healthStatus EXCEPT !.LastCheck = Earlier(@)]
  /\ loc' = [p \in Procs |-> [loc[p] EXCEPT !.start = Earlier(@)]]
  /\ ret' = [ret EXCEPT !.snap.LastCheck = Earlier(@), !.gen = 0,
                        !.tags = [i \in DOMAIN @ |-> 0]]
  /\ gen' = 0
  /\ mgen' = 0
  /\ hsTag' = [f \in Range(StatusFields) |-> 0]
  /\ mTag' = [f \in Range(MetricsFields) |-> 0]
  /\ UNCHANGED <<svcVars, webVars, cfg, envVars, phase, ctorVars, metrics, mu, pc, stopVars, calls>>

\* The steps of the main goroutine during start-up.
StartupSteps ==
  \/ NewDatabaseManager
  \/ \E err \in ConnectErrors : ConnectFails(err)
  \/ RetrySleep
  \/ ConnectSucceeds
  \/ ConnectWithRetryOk
  \/ ConnectWithRetryErr
  \/ NewDatabaseManagerReturn
  \/ NewPostgresDB
  \/ ProvideGormPostgres
  \/ OnStart
  \/ UmLock(Main)
  \/ UmWrite(Main)

\* The steps of the metrics routine.
MetricsSteps == StartMetricsCollection \/ McTick \/ UmLock(Mc) \/ UmWrite(Mc)

\* The steps of the health-check routine.
HealthSteps == StartHealthCheck \/ NextPeriodic

\* The two routines and a reader of the status, for as long as the process runs.
NextForever ==
  \/ Tick(MaxTime)
  \/ Rewind
  \/ NextStartup
  \/ NextPeriodic
  \/ UmLock(Mc)
  \/ UmWrite(Mc)
  \/ McTick
  \/ GetHealthStatus

\* The Go scheduler runs every runnable goroutine, and time passes.
SpecForever ==
  /\ Init
  /\ [][NextForever]_vars
  /\ WF_vars(Tick(MaxTime) \/ Rewind)
  /\ WF_vars(StartupSteps)
  /\ WF_vars(MetricsSteps)
  /\ WF_vars(HealthSteps)

\* ------------------------------------------------------------ properties
\* The events of k connect attempts with a sleep between each two of them.
AttemptTrace(k) == [i \in 1..(2 * k - 1) |-> IF i % 2 = 1 THEN "connect" ELSE "sleep"]

\* The connect attempts made so far.
Attempts == Cardinality({i \in 1..Len(trace) : trace[i] = "connect"})

\* The sleeps taken so far.
Sleeps == Cardinality({i \in 1..Len(trace) : trace[i] = "sleep"})

\* connectWithRetry has returned nil, now or earlier.
Connected == phase \in {"cwr_ok", "ctor_ok", "pg_ok", "provided", "serving"}

\* connectWithRetry has returned its error, now or earlier.
Exhausted == phase \in {"cwr_err", "ctor_failed", "pg_err", "exited"}

\* C1: when every connect attempt fails, connectWithRetry returns an error after
\* exactly N = retryAttempts attempts with one sleep of the retry delay between
\* each two consecutive attempts: none before the first, none after the last,
\* N-1 sleeps for N >= 1, and the clock has advanced by just those sleeps.
C1_ExhaustedAfterNAttempts ==
  phase = "cwr_err" =>
    /\ trace = AttemptTrace(cfg.retryAttempts)
    /\ Attempts = cfg.retryAttempts
    /\ cfg.retryAttempts >= 1 => Sleeps = cfg.retryAttempts - 1
    /\ cfg.retryAttempts >= 1 =>
         now = StartTime + (cfg.retryAttempts - 1) * cfg.retryDelay
    /\ ctorErr # ""
    /\ opened = 0

C1_Witness ==
  /\ phase = "cwr_err"
  /\ cfg.retryAttempts = MaxAttempts
  /\ trace = <<"connect", "sleep", "connect", "sleep", "connect">>

\* C2: when attempts 1..k-1 fail and attempt k succeeds (1 <= k <= N),
\* connectWithRetry returns nil after exactly k attempts and k-1 delays, no
\* attempt follows, and HealthStatus has RetryCount = 0 and IsHealthy = true.
C2_SucceedsAtAttemptK ==
  Connected =>
    /\ Attempts \in 1..cfg.retryAttempts
    /\ trace = AttemptTrace(Attempts)
    /\ Sleeps = Attempts - 1
    /\ now = StartTime + (Attempts - 1) * cfg.retryDelay
    /\ ctorErr = ""
    /\ opened = 1
    /\ healthStatus.RetryCount = 0
    /\ healthStatus.IsHealthy = TRUE

C2_Witness ==
  /\ phase = "cwr_ok"
  /\ cfg.retryAttempts = 3
  /\ Attempts = 3
  /\ Sleeps = 2
  /\ healthStatus.RetryCount = 0

\* C3: when all attempts have failed, NewDatabaseManager returns an error and no
\* manager, neither the health-check routine nor the metrics routine is ever
\* started, and the process never serves traffic.
C3_FailedStartNeverServes ==
  /\ Exhausted =>
       /\ manager = FALSE
       /\ ctorErr # ""
       /\ pc[Hc] = "unborn" /\ pc[Mc] = "unborn"
       /\ hcNext = 0 /\ mcNext = 0
       /\ pc[Caller] = "unborn"
  /\ opened = 0 => phase \notin {"ctor_ok", "pg_ok", "provided", "serving"}

C3_Witness ==
  /\ phase = "exited"
  /\ cfg.retryAttempts = 2
  /\ Attempts = 2
  /\ manager = FALSE
  /\ pc[Hc] = "unborn"

\* The operations that return a copy of dm.healthStatus.
StatusOps == {"HealthCheck", "FastHealthCheck", "GetHealthStatus"}

\* C4 as stated: two FastHealthCheck calls within 10 time-units of a successful
\* full health check return the identical snapshot, and neither issues a probe.
C4_IdenticalSnapshot ==
  [][(FastHealthCheck /\ FollowsFresh) =>
       (ret'.snap = ret.snap /\ ~ret'.spawned /\ calls' = calls)]_vars

\* C4, amended: a FastHealthCheck call that follows one which returned a healthy
\* snapshot, within 10 time-units of that snapshot's LastCheck, issues no probe
\* and returns the status cached at that moment; it is the identical snapshot
\* whenever no health check has recorded a result between the two calls.
C4_NoProbeSameUnlessRecorded ==
  [][(FastHealthCheck /\ FollowsFresh) =>
       /\ ~ret'.spawned
       /\ calls' = calls
       /\ pc' = pc
       /\ ret'.snap = healthStatus
       /\ gen = ret.gen => ret'.snap = ret.snap]_vars

C4_Witness ==
  /\ ret.op = "FastHealthCheck"
  /\ ret.again
  /\ ~ret.spawned
  /\ ret.snap.IsHealthy
  /\ now = ret.snap.LastCheck + TimeStep

\* C5: a FastHealthCheck call that finds the cached snapshot 10 or more
\* time-units old starts HealthCheck in a goroutine of its own and returns the
\* stale cached snapshot at once, the cache untouched and the probe not yet run.
C5_StaleSpawnsAndReturnsCached ==
  [][(FastHealthCheck /\ now - healthStatus.LastCheck >= StaleAfter) =>
       /\ ret'.spawned
       /\ ret'.snap = healthStatus
       /\ healthStatus' = healthStatus
       /\ gen' = gen
       /\ pc'[Caller] = "idle"
       /\ \E g \in Async : pc[g] = "unborn" /\ pc'[g] = "hc_begin"]_vars

C5_Witness ==
  /\ ret.op = "FastHealthCheck"
  /\ ret.spawned
  /\ ret.snap.LastCheck > ZeroTime
  /\ now - ret.snap.LastCheck = StaleAfter
  /\ pc[Caller] = "idle"
  /\ \E g \in Async : pc[g] = "hc_ping"

\* C6 as stated: a HealthCheck call whose own probe failed returns a snapshot
\* with IsHealthy = false, a non-empty LastError and a ResponseTime >= 0.
C6_FailedCheckReturnsFailure ==
  (ret.op = "HealthCheck" /\ ret.own.err # "") =>
    /\ ret.snap.IsHealthy = FALSE
    /\ ret.snap.LastError # ""
    /\ ret.snap.ResponseTime >= 0

\* C7: every returned HealthStatus copy carries the IsHealthy, LastCheck,
\* LastError and ResponseTime of one single status update, and every returned
\* ConnectionMetrics copy the eight fields of one single metrics update.
C7_SnapshotsFromOneWrite ==
  /\ ret.op # "none" => \A i, j \in DOMAIN ret.tags : ret.tags[i] = ret.tags[j]
  /\ ret.op \in StatusOps => (ret.snap.IsHealthy <=> ret.snap.LastError = "")
  /\ ret.op = "GetMetrics" => ret.msnap.TotalConnections = ret.msnap.OpenConnections

C7_Witness ==
  /\ ret.op \in StatusOps
  /\ ret.tags[1] >= 1
  /\ \E p \in Procs : pc[p] = "hs_lock"
  /\ pc[Mc] = "um_lock"

\* C8: every GetMetrics result of a constructed manager carries the configured
\* pool bounds as MaxOpenConnections and MaxIdleConnections, also before the
\* first periodic metrics collection.
C8_MetricsCarryConfiguredBounds ==
  ret.op = "GetMetrics" =>
    /\ ret.msnap.MaxOpenConnections = cfg.maxOpen
    /\ ret.msnap.MaxIdleConnections = cfg.maxIdle
    /\ ret.msnap.MaxOpenConnections > 0

C8_Witness ==
  /\ ret.op = "GetMetrics"
  /\ mgen = 1
  /\ ret.tags[Len(MetricsFields)] = 1
  /\ pc[Mc] = "wait"
  /\ now < mcNext

\* C9: a Close() call on a manager holding a handle calls the pool's Close
\* exactly once, returns nil when that succeeds and an error when it fails.
C9_CloseOncePerCall ==
  [][\A e \in CloseErrors :
       (Close(e) /\ db # 0) =>
         /\ closeCalls' = closeCalls + 1
         /\ closed'
         /\ Len(closeRets') = Len(closeRets) + 1
         /\ closeRets'[Len(closeRets')] = "" <=> e = ""]_vars

C9_Witness ==
  /\ phase = "stopped"
  /\ db # 0
  /\ closeCalls = 1
  /\ closed
  /\ closeRets = <<"Failed to close database connection">>

HcLoop == {"spawned", "wait", "hc_begin", "hc_ping", "hs_lock", "hs_write", "hc_ret"}

\* C11: for the whole lifetime of a constructed manager the periodic routine
\* keeps running a full health check, tick after tick; so if the store becomes
\* and stays unreachable the status ends up with IsHealthy = false for good, if
\* it becomes and stays reachable with IsHealthy = true for good, and no failed
\* check ends the routine or the process.
C11_PeriodicCheckTracksStore ==
  /\ [](manager => (pc[Hc] \in HcLoop /\ Alive))
  /\ [](manager => <>(pc[Hc] = "hc_begin"))
  /\ <>[](manager /\ ~storeUp) => <>[](~healthStatus.IsHealthy)
  /\ <>[](manager /\ storeUp) => <>[](healthStatus.IsHealthy)

\* The status is healthy again after a caller was shown an unhealthy one that a
\* check had recorded.
C11_Witness ==
  /\ manager
  /\ ret.op = "GetHealthStatus"
  /\ ~ret.snap.IsHealthy
  /\ ret.snap.LastError # ""
  /\ healthStatus.IsHealthy
  /\ healthStatus.LastError = ""
  /\ pc[Hc] = "wait"

\* A step in which the caller is handed a result.
CallerIsHanded ==
  FastHealthCheck \/ GetHealthStatus \/ GetMetrics \/ HcReturn(Caller)

Checkers == {Hc, Caller} \cup Async

\* A ping is outstanding.
Pinging == \E p \in Checkers : pc[p] = "hc_ping"

\* C13: HealthCheck holds no lock while its ping is outstanding, and the metrics
\* update none outside its assignments; so while a ping is outstanding the
\* metrics update can take the lock, and GetMetrics, GetHealthStatus and
\* FastHealthCheck can return, as soon as the few assignments of another
\* update, if one is in progress, are done.
C13_PingHoldsNoLock ==
  /\ \A p \in Checkers : mu = p => pc[p] = "hs_write"
  /\ \A p \in {Main, Mc} : mu = p => pc[p] = "um_write"
  /\ (Pinging /\ mu = None /\ Alive) =>
       /\ pc[Mc] = "um_lock" => ENABLED UmLock(Mc)
       /\ \A p \in Checkers : pc[p] = "hs_lock" => ENABLED HsLock(p)
       /\ (phase = "serving" /\ pc[Caller] = "idle") =>
            /\ ENABLED GetMetrics
            /\ ENABLED GetHealthStatus
            /\ IsFresh(healthStatus.LastCheck) => ENABLED FastHealthCheck

\* While a ping started at 15 is still outstanding at 20, the metrics update of
\* the tick at 20 has run, and GetMetrics has returned what it wrote.
C13_Witness ==
  /\ \E g \in Async : pc[g] = "hc_ping" /\ loc[g].start < now
  /\ pc[Mc] = "wait"
  /\ now < mcNext
  /\ mgen = 2
  /\ ret.op = "GetMetrics"
  /\ ret.tags[1] = 2

\* C14: once the manager is constructed no goroutine panics in HealthCheck,
\* FastHealthCheck, the getters, Close or the two routines, whatever the
\* interleaving, the store's state, and also after Close(): a failure shows as
\* a recorded status or as a returned error.
C14_NoPanicAfterConstruction ==
  manager =>
    /\ \A p \in Procs : pc[p] # "panic"
    /\ \A i \in 1..Len(closeRets) : closeRets[i] \in {"", CloseResult("close: broken pipe")}
    /\ (~healthStatus.IsHealthy /\ mu = None) => healthStatus.LastError # ""

\* A health check whose ping was outstanding when Close() ran has recorded the
\* closed pool as its error, while the store itself is reachable.
C14_Witness ==
  /\ manager
  /\ closed
  /\ storeUp
  /\ healthStatus.LastError = "sql: database is closed"
  /\ ~healthStatus.IsHealthy
  /\ \A p \in Procs : pc[p] # "panic"

\* ------------------------------------------------------- HTTP middleware
\* Longest list of permissions a requesting-party token carries.
MaxPerms == 2

\* "Bearer ", one character per element.
Bearer == <<"B", "e", "a", "r", "e", "r", " ">>

\* strings.HasPrefix(s, prefix)
HasPrefix(s, prefix) ==
  Len(s) >= Len(prefix) /\ SubSeq(s, 1, Len(prefix)) = prefix

\* strings.TrimPrefix(s, prefix)
TrimPrefix(s, prefix) ==
  IF HasPrefix(s, prefix) THEN SubSeq(s, Len(prefix) + 1, Len(s)) ELSE s

\* Values of the Authorization header; <<>> is what Header.Get returns when
\* the header is missing.
Headers ==
  { <<>>,
    <<"B", "e", "a", "r", "e", "r">>,
    Bearer,
    Bearer \o <<"t">>,
    Bearer \o <<" ">>,
    <<"b", "e", "a", "r", "e", "r", " ", "t">>,
    <<"B", "a", "s", "i", "c", " ", "t">>,
    <<" ">> \o Bearer \o <<"t">> }

\* The roles a token's user holds, and the roles a route is given.
RoleLists == { <<>>, <<"admin">>, <<"user">>, <<"user", "admin">> }
RequiredLists == { <<>>, <<"admin">>, <<"editor", "admin">> }

\* What a downstream handler does: answers and returns nil, returns an error,
\* panics with an error, panics with another value, or answers and then panics.
HandlerKinds == {"ok", "err", "panic_error", "panic_value", "write_panic"}

\* rptClaims.Authorization.Permissions
PermEntries ==
  [ResourceName : {"users", "companies"},
   Scopes : { <<>>, <<"read">>, <<"write">>, <<"write", "read">> }]
PermLists ==
  UNION { [1..n -> PermEntries] : n \in 0..MaxPerms }

\* The routes: RecoveryMiddleware outermost, then the route's middleware.
AuthRoute == <<"recovery", "auth", "handler">>
RoleRoute == <<"recovery", "auth", "role", "handler">>
BareRoleRoute == <<"recovery", "role", "handler">>
PermRoute == <<"recovery", "perm", "handler">>

\* What the auth service answers for the request's token.
AuthAnswers ==
  { [NoRequest EXCEPT !.header = h, !.validateErr = v, !.active = a, !.decodeErr = d] :
      h \in Headers, v \in BOOLEAN, a \in BOOLEAN, d \in BOOLEAN }

Requests ==
  { [r EXCEPT !.chain = AuthRoute, !.handler = k] :
      r \in AuthAnswers, k \in HandlerKinds }
  \cup
  { [r EXCEPT !.chain = RoleRoute, !.roles = u, !.required = q] :
      r \in AuthAnswers, u \in RoleLists, q \in RequiredLists }
  \cup
  { [NoRequest EXCEPT !.chain = BareRoleRoute, !.header = h, !.required = q] :
      h \in Headers, q \in RequiredLists }
  \cup
  { [NoRequest EXCEPT !.chain = PermRoute, !.header = h, !.rptErr = e,
                      !.rptDecodeErr = d, !.permissions = ps,
                      !.resource = "users", !.scope = "read"] :
      h \in Headers, e \in BOOLEAN, d \in BOOLEAN, ps \in PermLists }

\* A request arrives at a running server; echo invokes the outermost handler.
InitWeb ==
  /\ InitWith(RunConfigs)
  /\ SvcIdle
  /\ storeUp
  /\ request \in Requests
  /\ store = NoValue
  /\ written = <<>>
  /\ depth = 1
  /\ dir = "call"
  /\ carry = NoCarry
  /\ entered = {1}

\* The middleware or handler whose code runs.
Frame ==
  IF depth \in 1..Len(request.chain) THEN request.chain[depth] ELSE "none"

\* next(c): the handler below is invoked.
CallNext ==
  /\ depth' = depth + 1
  /\ entered' = entered \cup {depth + 1}
  /\ dir' = "call"
  /\ carry' = carry
  /\ written' = written

\* return c.JSON(status, map[string]string{"error": msg})
Answer(by, status, msg) ==
  /\ written' = Append(written, [by |-> by, status |-> status, error |-> msg])
  /\ carry' = [kind |-> "nil", isError |-> FALSE]
  /\ depth' = depth - 1
  /\ dir' = "return"
  /\ entered' = entered

\* Faulty variant: a token the auth service reports inactive is let through.
AuthOutcome_IgnoresActive(r) ==
  IF r.header = <<>> THEN "Authorization header required"
  ELSE IF ~HasPrefix(r.header, Bearer) THEN "Invalid authorization header format"
  ELSE IF TrimPrefix(r.header, Bearer) = <<>> THEN "Token required"
  ELSE IF r.validateErr THEN "Invalid token"
  ELSE IF r.decodeErr THEN "Invalid token claims"
  ELSE "next"

\* AuthMiddleware: the error it answers with, or "next".
AuthOutcome(r) ==
  IF r.header = <<>> THEN "Authorization header required"
  ELSE IF ~HasPrefix(r.header, Bearer) THEN "Invalid authorization header format"
  ELSE IF TrimPrefix(r.header, Bearer) = <<>> THEN "Token required"
  ELSE IF r.validateErr THEN "Invalid token"
  ELSE IF ~r.active THEN "Token is not active"
  ELSE IF r.decodeErr THEN "Invalid token claims"
  ELSE "next"

\* c.Set(authService.GetClaimsKey(), &tokenClaims): a *auth.TokenClaims.
ClaimsValue(r) == [type |-> "*auth.TokenClaims", roles |-> r.roles]

\* AuthMiddleware, up to its return or its call of next.
AuthMiddleware ==
  /\ Frame = "auth"
  /\ dir = "call"
  /\ LET o == AuthOutcome(request)
     IN IF o = "next"
          THEN store' = ClaimsValue(request) /\ CallNext
          ELSE store' = store /\ Answer("auth", "Unauthorized", o)
  /\ UNCHANGED <<svcVars, dmVars, request>>

\* user, ok := c.Get(cfg.KeycloakKeyClaim).(*auth.User): ok
IsUser(v) == v.type = "*auth.User"

\* The loop of RequireRole over the required roles and the user's roles.
HasRole(required, userRoles) ==
  \E i \in 1..Len(required) : \E j \in 1..Len(userRoles) : userRoles[j] = required[i]

\* RequireRole, up to its return or its call of next.
RequireRole ==
  /\ Frame = "role"
  /\ dir = "call"
  /\ IF ~IsUser(store)
       THEN Answer("role", "Unauthorized", "User not authenticated")
       ELSE IF ~HasRole(request.required, store.roles)
              THEN Answer("role", "Forbidden", "Insufficient permissions")
              ELSE CallNext
  /\ UNCHANGED <<svcVars, dmVars, request, store>>

\* Faulty variant: the scope is looked for in every entry, whatever its resource.
Permitted_ScopeAnywhere(perms, resource, scope) ==
  /\ \E i \in 1..Len(perms) : perms[i].ResourceName = resource
  /\ \E i \in 1..Len(perms) : \E j \in 1..Len(perms[i].Scopes) : perms[i].Scopes[j] = scope

\* The loop of RequirePermission over authorization.permissions.
Permitted(perms, resource, scope) ==
  \E i \in 1..Len(perms) :
     /\ perms[i].ResourceName = resource
     /\ \E j \in 1..Len(perms[i].Scopes) : perms[i].Scopes[j] = scope

\* RequirePermission: the status and error it answers with, or "next".
PermOutcome(r) ==
  IF ~HasPrefix(r.header, Bearer)
    THEN <<"Unauthorized", "Invalid authorization header format">>
  ELSE IF TrimPrefix(r.header, Bearer) = <<>>
    THEN <<"Unauthorized", "Token required">>
  ELSE IF r.rptErr
    THEN <<"Forbidden", "Permission evaluation failed">>
  ELSE IF r.rptDecodeErr
    THEN <<"Forbidden", "Invalid RPT claims">>
  ELSE IF Permitted(r.permissions, r.resource, r.scope)
    THEN <<"next", "">>
  ELSE <<"Forbidden", "Insufficient permissions">>

\* RequirePermission, up to its return or its call of next.
RequirePermission ==
  /\ Frame = "perm"
  /\ dir = "call"
  /\ LET o == PermOutcome(request)
     IN IF o[1] = "next" THEN CallNext ELSE Answer("perm", o[1], o[2])
  /\ UNCHANGED <<svcVars, dmVars, request, store>>

\* The route's handler runs and returns, or panics.
Handler ==
  /\ Frame = "handler"
  /\ dir = "call"
  /\ written' = IF request.handler \in {"ok", "write_panic"}
                  THEN Append(written, [by |-> "handler", status |-> "OK", error |-> ""])
                  ELSE written
  /\ carry' = CASE request.handler = "ok" -> [kind |-> "nil", isError |-> FALSE]
                [] request.handler = "err" -> [kind |-> "err", isError |-> TRUE]
                [] request.handler = "panic_error" -> [kind |-> "panic", isError |-> TRUE]
                [] OTHER -> [kind |-> "panic", isError |-> FALSE]
  /\ depth' = depth - 1
  /\ dir' = "return"
  /\ UNCHANGED <<svcVars, dmVars, request, store, entered>>

\* `return next(c)` in AuthMiddleware, RequireRole and RequirePermission: the
\* result of next is handed up; none of them defers anything, so a panic
\* unwinds through them.
ReturnNext ==
  /\ Frame \in {"auth", "role", "perm"}
  /\ dir = "return"
  /\ depth' = depth - 1
  /\ UNCHANGED <<svcVars, dmVars, request, store, written, dir, carry, entered>>

\* RecoveryMiddleware: the deferred function is set up, then `return next(c)`.
RecoveryCall ==
  /\ Frame = "recovery"
  /\ dir = "call"
  /\ CallNext
  /\ UNCHANGED <<svcVars, dmVars, request, store>>

\* Faulty variant: only a panic whose value is an error is recovered.
Recovers_ErrorsOnly(v) == v.kind = "panic" /\ v.isError

\* if r := recover(); r != nil: a panic unwinds (with Go 1.21 and later
\* panic(nil) carries a *runtime.PanicNilError, so r is never nil then).
Recovers(v) == v.kind = "panic"

\* RecoveryMiddleware after next(c): the deferred function runs.  After a
\* recovered panic the handler returns the zero value of its result, nil.
RecoveryReturn ==
  /\ Frame = "recovery"
  /\ dir = "return"
  /\ IF Recovers(carry)
       THEN /\ written' = Append(written,
                 [by |-> "recovery", status |-> "InternalError",
                  error |-> "Application panic occurred"])
            /\ carry' = [kind |-> "nil", isError |-> FALSE]
       ELSE /\ written' = written
            /\ carry' = carry
  /\ depth' = depth - 1
  /\ UNCHANGED <<svcVars, dmVars, request, store, dir, entered>>

NextWeb ==
  \/ RecoveryCall
  \/ AuthMiddleware
  \/ RequireRole
  \/ RequirePermission
  \/ Handler
  \/ ReturnNext
  \/ RecoveryReturn

\* One request through its route.
SpecWeb == InitWeb /\ [][NextWeb]_vars

\* C15 as stated: every write to a field of dm.healthStatus, by the health check
\* and by connectWithRetry alike, is made by a goroutine holding dm.mu.
C15_AllWritesUnderLock ==
  [][healthStatus' # healthStatus => mu # None]_vars

\* No goroutine but main exists, and no caller has been handed the manager.
Unshared == ~manager /\ \A p \in Procs \ {Main} : pc[p] = "unborn"

\* C15, amended: every write to dm.healthStatus by updateHealthStatus is made
\* holding dm.mu; connectWithRetry writes RetryCount and IsHealthy without the
\* lock, and only while the manager is not yet shared with any other goroutine.
C15_WritesUnderLockOnceShared ==
  [][healthStatus' # healthStatus =>
       \/ mu # None /\ pc[mu] = "hs_write"
       \/ mu = None /\ Unshared /\ phase \in {"loop", "connected"}]_vars

\* connectWithRetry has written RetryCount with the lock free.
C15_Witness ==
  /\ phase = "sleep"
  /\ healthStatus.RetryCount = 1
  /\ mu = None
  /\ Unshared

\* The positions of a goroutine inside HealthCheck().
InCheck == {"hc_begin", "hc_ping", "hs_lock", "hs_write", "hc_ret"}

\* C16: every HealthCheck() ends.  A ping is never outstanding past its
\* deadline of start + health timeout, and a ping the store has not answered by
\* then ends in an error; the update that follows records the call's outcome
\* with LastCheck set to the time of the update; and the periodic routine,
\* having started a check, is back waiting for its next tick.
C16_HealthCheckTerminates ==
  /\ [](\A p \in Checkers :
         pc[p] = "hc_ping" => now <= loc[p].start + cfg.healthTimeout)
  /\ [][\A p \in Checkers :
          (pc[p] = "hc_ping" /\ pc'[p] # "hc_ping" /\ ~storeUp) => loc'[p].err # ""]_vars
  /\ [][\A p \in Checkers :
          (pc[p] = "hs_write" /\ pc'[p] = "hc_ret") =>
             /\ healthStatus'.LastCheck = now'
             /\ healthStatus'.LastCheck >= loc[p].start
             /\ healthStatus'.IsHealthy = (loc[p].err = "")
             /\ healthStatus'.LastError = loc[p].err
             /\ healthStatus'.ResponseTime <= cfg.healthTimeout]_vars
  /\ (pc[Hc] \in InCheck) ~> (pc[Hc] = "wait")

\* The periodic check's ping ran into its deadline; the failure is recorded and
\* the routine waits for its next tick.
C16_Witness ==
  /\ pc[Hc] = "wait"
  /\ healthStatus.LastError = "context deadline exceeded"
  /\ ~healthStatus.IsHealthy
  /\ healthStatus.ResponseTime = cfg.healthTimeout
  /\ healthStatus.LastCheck = now

\* The handler at index i of the chain has run up to its return or its call of next.
Acted(i) == i \in entered /\ (depth # i \/ dir # "call")

\* The responses written by middleware m.
WrittenBy(m) == { k \in 1..Len(written) : written[k].by = m }

RecoveryReturns ==
  /\ depth \in 1..Len(request.chain)
  /\ request.chain[depth] = "recovery"
  /\ dir = "return"
  /\ depth' = depth - 1

\* C18: when the handler below panicked, with an error or with any other
\* value, RecoveryMiddleware returns normally to its caller and has written
\* exactly one internal-error response; when it did not panic, its result is
\* returned as it is and RecoveryMiddleware writes nothing.
C18_RecoveryStopsEveryPanic ==
  [][RecoveryReturns =>
       IF carry.kind = "panic"
         THEN /\ carry'.kind = "nil"
              /\ written' = Append(written,
                   [by |-> "recovery", status |-> "InternalError",
                    error |-> "Application panic occurred"])
              /\ Cardinality({ k \in 1..Len(written') : written'[k].by = "recovery" }) = 1
         ELSE /\ carry' = carry
              /\ written' = written]_vars

\* A handler panicked with a value that is not an error: echo got nil back and
\* the only response is the internal error.
C18_Witness ==
  /\ request.handler = "panic_value"
  /\ 3 \in entered
  /\ depth = 0
  /\ carry.kind = "nil"
  /\ written = <<[by |-> "recovery", status |-> "InternalError",
                  error |-> "Application panic occurred"]>>

\* C19 as stated: on a route with RequireRole, a request that AuthMiddleware
\* let through and whose user holds at least one of the required roles reaches
\* the next handler; with no authenticated user in the context RequireRole
\* answers Unauthorized (401), with a user holding none of the roles Forbidden
\* (403), and in both cases the next handler is not invoked.
C19_RoleHolderPasses ==
  \A i \in 1..Len(request.chain) :
    (request.chain[i] = "role" /\ Acted(i)) =>
      LET authenticated == \E a \in 1..(i - 1) : request.chain[a] = "auth"
          holds == \E r \in Range(request.required) : r \in Range(request.roles)
      IN /\ (authenticated /\ holds) => (i + 1) \in entered
         /\ ~authenticated =>
              /\ (i + 1) \notin entered
              /\ \A k \in WrittenBy("role") : written[k].status = "Unauthorized"
         /\ (authenticated /\ ~holds) =>
              /\ (i + 1) \notin entered
              /\ \A k \in WrittenBy("role") : written[k].status = "Forbidden"

\* C20: RequirePermission(resource, scope) invokes the next handler exactly
\* when the header carries a non-empty Bearer token, the exchange for a
\* requesting-party token succeeds, its claims decode and one of the decoded
\* permissions names the resource and lists the scope; without a well-formed
\* Bearer header with a token it answers Unauthorized (401), on every other
\* failure Forbidden (403), once.
C20_PermissionGate ==
  \A i \in 1..Len(request.chain) :
    (request.chain[i] = "perm" /\ Acted(i)) =>
      LET h == request.header
          bearer == /\ Len(h) > Len(Bearer)
                    /\ \A k \in 1..Len(Bearer) : h[k] = Bearer[k]
          granted == \E e \in Range(request.permissions) :
                        /\ e.ResourceName = request.resource
                        /\ request.scope \in Range(e.Scopes)
          allowed == bearer /\ ~request.rptErr /\ ~request.rptDecodeErr /\ granted
      IN /\ (i + 1) \in entered <=> allowed
         /\ ~allowed =>
              /\ Cardinality(WrittenBy("perm")) = 1
              /\ \A k \in WrittenBy("perm") :
                   written[k].status = IF bearer THEN "Forbidden" ELSE "Unauthorized"
         /\ allowed => WrittenBy("perm") = {}

\* The token's permissions name the resource with another scope and the scope
\* under another resource: the request was answered with Forbidden.
C20_Witness ==
  /\ request.chain = PermRoute
  /\ request.header = Bearer \o <<"t">>
  /\ ~request.rptErr
  /\ ~request.rptDecodeErr
  /\ request.permissions = <<[ResourceName |-> "users", Scopes |-> <<"write">>],
                             [ResourceName |-> "companies", Scopes |-> <<"write", "read">>]>>
  /\ depth = 0
  /\ written = <<[by |-> "perm", status |-> "Forbidden", error |-> "Insufficient permissions"]>>
  /\ entered = {1, 2}

\* The stop hook has been entered and has not returned.
InStopHook == phase \in {"shutting", "stop_close"} \/ (phase = "exited" /\ manager /\ stopErr = "unset")

C25_SnapshotIsOwnOutcome ==
  ret.op = "HealthCheck" =>
    /\ ret.snap.IsHealthy = (ret.own.err = "")
    /\ ret.snap.LastError = ret.own.err
    /\ ret.snap.ResponseTime = ret.own.rt

\* ---------------------------------------------------------- userService
\* Longest req.Companies of a request.
MaxCompanies == 2

\* The company IDs of requests; "" is an entry without an ID.
RequestIds == {"", "a", "c"}

\* req.Companies, as the sequence of its IDs.
CompanyLists == UNION { [1..n -> RequestIds] : n \in 0..MaxCompanies }

\* user.Companies as userRepo.GetOneByID(userID, "Companies") loads it.
StoredLists == { <<>>, <<"a">>, <<"a", "b">> }

\* The calls: the request, whether its companies field was present (a list
\* with entries always is), the stored user, the IDs for which
\* companyRepo.GetOneByID fails and whether the repository write fails.
UserCalls ==
  { [kind |-> "Create", companies |-> cs, provided |-> TRUE, stored |-> <<>>,
     userFound |-> FALSE, missing |-> ms, writeErr |-> w] :
      cs \in CompanyLists, ms \in SUBSET RequestIds, w \in BOOLEAN }
  \cup
  { [kind |-> "Update", companies |-> cs, provided |-> (pr \/ cs # <<>>), stored |-> st,
     userFound |-> f, missing |-> ms, writeErr |-> w] :
      cs \in CompanyLists, pr \in BOOLEAN, st \in StoredLists, f \in BOOLEAN,
      ms \in SUBSET RequestIds, w \in BOOLEAN }

\* A call of the user service arrives.
InitUsers ==
  /\ InitWith(RunConfigs)
  /\ storeUp
  /\ WebIdle
  /\ ureq \in UserCalls
  /\ uloc = [NoLocals EXCEPT !.pc = "start"]
  /\ uwrites = <<>>
  /\ ures = NoResult
  /\ files = <<>>
  /\ ch = <<>>
  /\ workers = <<>>
  /\ collector = NoCollector

\* s.companyRepo.GetOneByID(companyID): its error ("" = nil).
Lookup(id) == IF id \in ureq.missing THEN "record not found" ELSE ""

\* Faulty variant: the error of the company lookup is dropped.
AbortsOn_Never(err) == FALSE

\* `if err != nil { ...; return nil, errors.NotFoundError("Company", err) }`
AbortsOn(err) == err # ""

\* return nil, errors.NotFoundError(resource, err).WithContext(..., id)
NotFound(resource, id) ==
  [kind |-> "NotFound", resource |-> resource, id |-> id, companies |-> <<>>]

\* return nil, errors.DatabaseError(...)
DatabaseError ==
  [kind |-> "DatabaseError", resource |-> "user", id |-> "", companies |-> <<>>]

\* return user, nil
Returned(companies) ==
  [kind |-> "ok", resource |-> "user", id |-> "", companies |-> companies]

\* Create is entered: companies := []models.Company{}
CreateBegin ==
  /\ ureq.kind = "Create"
  /\ uloc.pc = "start"
  /\ uloc' = [uloc EXCEPT !.pc = "create_loop", !.idx = 1]
  /\ UNCHANGED <<dmVars, webVars, ureq, uwrites, ures, files, ch, workers, collector>>

\* One iteration of Create's loop over req.Companies.
CreateLookup ==
  /\ uloc.pc = "create_loop"
  /\ uloc.idx <= Len(ureq.companies)
  /\ LET id == ureq.companies[uloc.idx]
         err == Lookup(id)
         seen == Append(uloc.looked, [id |-> id, err |-> err])
     IN IF AbortsOn(err)
          THEN /\ ures' = NotFound("Company", id)
               /\ uloc' = [uloc EXCEPT !.pc = "done", !.looked = seen]
          ELSE /\ ures' = ures
               /\ uloc' = [uloc EXCEPT !.idx = @ + 1, !.looked = seen,
                                       !.companies = Append(@, id)]
  /\ UNCHANGED <<dmVars, webVars, ureq, uwrites, files, ch, workers, collector>>

\* Create after the loop: s.userRepo.Create(user) and the return.
CreateSave ==
  /\ uloc.pc = "create_loop"
  /\ uloc.idx > Len(ureq.companies)
  /\ uwrites' = Append(uwrites, [op |-> "Create", companies |-> uloc.companies])
  /\ ures' = IF ureq.writeErr THEN DatabaseError ELSE Returned(uloc.companies)
  /\ uloc' = [uloc EXCEPT !.pc = "done"]
  /\ UNCHANGED <<dmVars, webVars, ureq, files, ch, workers, collector>>

\* Whether Update replaces the associations: `if len(req.Companies) > 0`.
ReplacesCompanies(req) == Len(req.companies) > 0

\* requestedCompanyIDs: the IDs of req.Companies that are not empty.
RequestedIds(req) == { id \in Range(req.companies) : id # "" }

\* Update: s.userRepo.GetOneByID(userID, "Companies"), then the two maps.
UpdateLoad ==
  /\ ureq.kind = "Update"
  /\ uloc.pc = "start"
  /\ IF ~ureq.userFound
       THEN /\ ures' = NotFound("User", "u")
            /\ uloc' = [uloc EXCEPT !.pc = "done"]
       ELSE /\ ures' = ures
            /\ uloc' = IF ReplacesCompanies(ureq)
                         THEN [uloc EXCEPT !.pc = "update_loop", !.companies = <<>>,
                                           !.todo = RequestedIds(ureq)]
                         ELSE [uloc EXCEPT !.pc = "update_save",
                                           !.companies = ureq.stored]
  /\ UNCHANGED <<dmVars, webVars, ureq, uwrites, files, ch, workers, collector>>

\* One iteration of `for companyID := range requestedCompanyIDs`, in the
\* order the map yields: an associated company is taken from user.Companies,
\* another one is fetched.
UpdateCompany ==
  /\ uloc.pc = "update_loop"
  /\ \E id \in uloc.todo :
       IF id \in Range(ureq.stored)
         THEN /\ ures' = ures
              /\ uloc' = [uloc EXCEPT !.todo = @ \ {id}, !.companies = Append(@, id)]
         ELSE LET err == Lookup(id)
                  seen == Append(uloc.looked, [id |-> id, err |-> err])
              IN IF AbortsOn(err)
                   THEN /\ ures' = NotFound("Company", id)
                        /\ uloc' = [uloc EXCEPT !.pc = "done", !.looked = seen]
                   ELSE /\ ures' = ures
                        /\ uloc' = [uloc EXCEPT !.todo = @ \ {id}, !.looked = seen,
                                                !.companies = Append(@, id)]
  /\ UNCHANGED <<dmVars, webVars, ureq, uwrites, files, ch, workers, collector>>

\* Update after the loop: user.Companies = finalCompanies, the field updates,
\* s.userRepo.Update(user) and the return.
UpdateSave ==
  /\ \/ uloc.pc = "update_save"
     \/ uloc.pc = "update_loop" /\ uloc.todo = {}
  /\ uwrites' = Append(uwrites, [op |-> "Update", companies |-> uloc.companies])
  /\ ures' = IF ureq.writeErr THEN DatabaseError ELSE Returned(uloc.companies)
  /\ uloc' = [uloc EXCEPT !.pc = "done"]
  /\ UNCHANGED <<dmVars, webVars, ureq, files, ch, workers, collector>>

NextUsers ==
  \/ CreateBegin
  \/ CreateLookup
  \/ CreateSave
  \/ UpdateLoad
  \/ UpdateCompany
  \/ UpdateSave

\* One call of userService.Create or userService.Update.
SpecUsers == InitUsers /\ [][NextUsers]_vars

\* C21 as stated: when the request provides a companies list, also an empty
\* one, the user a successful Update saves and returns has exactly the
\* companies whose IDs the request lists, and none for an empty list.
C21_UpdateReplacesCompanies ==
  (ureq.kind = "Update" /\ ureq.provided /\ ures.kind = "ok") =>
    /\ Range(ures.companies) = RequestedIds(ureq)
    /\ uwrites = <<[op |-> "Update", companies |-> ures.companies]>>
    /\ ureq.companies = <<>> => ures.companies = <<>>

\* C22: when the lookup of a company fails in Create or Update, the call
\* returns a not-found error for that company at once and neither
\* userRepo.Create nor userRepo.Update has been called.
C22_FailedLookupWritesNothing ==
  \A k \in 1..Len(uloc.looked) :
    uloc.looked[k].err # "" =>
      /\ k = Len(uloc.looked)
      /\ uloc.pc = "done"
      /\ ures = NotFound("Company", uloc.looked[k].id)
      /\ uwrites = <<>>

\* An Update asking for an associated company and for one whose lookup fails
\* has returned not-found without a write.
C22_Witness ==
  /\ ureq.kind = "Update"
  /\ ureq.stored = <<"a">>
  /\ ureq.companies = <<"a", "c">>
  /\ uloc.pc = "done"
  /\ uloc.looked = <<[id |-> "c", err |-> "record not found"]>>
  /\ ures = NotFound("Company", "c")
  /\ uwrites = <<>>

\* ---------------------------------------------------------- UploadFiles
\* Most files of one call.
MaxFiles == 3

\* The calls: for each file the error a.UploadFile returns for it ("" = nil).
FileLists == UNION { [1..n -> {"", "upload failed"}] : n \in 0..MaxFiles }

\* UploadFiles is entered: result and ch are made, no goroutine runs yet.
InitUpload ==
  /\ InitWith(RunConfigs)
  /\ storeUp
  /\ WebIdle
  /\ ureq = NoUserCall
  /\ uloc = NoLocals
  /\ uwrites = <<>>
  /\ ures = NoResult
  /\ files \in FileLists
  /\ ch = <<>>
  /\ workers = [w \in 1..Len(files) |-> "unborn"]
  /\ collector = NoCollector

\* Faulty variant: the channel holds one result, however many files there are.
ChanCap_One(n) == 1

\* ch := make(chan uploadResult, len(files)): the channel's capacity.
ChanCap(n) == n

\* One iteration of the first loop: go func(fh) {...}(fh)
Spawn ==
  /\ collector.ret = "none"
  /\ collector.spawned < Len(files)
  /\ collector' = [collector EXCEPT !.spawned = @ + 1]
  /\ workers' = [workers EXCEPT ![collector.spawned + 1] = "run"]
  /\ UNCHANGED <<dmVars, webVars, ureq, uloc, uwrites, ures, files, ch>>

\* The goroutine of file w: res, err := a.UploadFile(ctx, fh, fh.Filename)
UploadFile(w) ==
  /\ workers[w] = "run"
  /\ workers' = [workers EXCEPT ![w] = "send"]
  /\ UNCHANGED <<dmVars, webVars, ureq, uloc, uwrites, ures, files, ch, collector>>

\* The goroutine of file w: ch <- uploadResult{res, err}, then it ends.
Send(w) ==
  /\ workers[w] = "send"
  /\ Len(ch) < ChanCap(Len(files))
  /\ ch' = Append(ch, [file |-> w, err |-> files[w]])
  /\ workers' = [workers EXCEPT ![w] = "done"]
  /\ UNCHANGED <<dmVars, webVars, ureq, uloc, uwrites, ures, files, collector>>

\* One iteration of the second loop: r := <-ch, return on an error, else append.
Receive ==
  /\ collector.ret = "none"
  /\ collector.spawned = Len(files)
  /\ collector.i < Len(files)
  /\ ch # <<>>
  /\ ch' = Tail(ch)
  /\ collector' = IF Head(ch).err # ""
                    THEN [collector EXCEPT !.ret = "err", !.result = <<>>]
                    ELSE [collector EXCEPT !.i = @ + 1,
                                           !.result = Append(@, Head(ch).file)]
  /\ UNCHANGED <<dmVars, webVars, ureq, uloc, uwrites, ures, files, workers>>

\* return result, nil
UploadFilesReturn ==
  /\ collector.ret = "none"
  /\ collector.spawned = Len(files)
  /\ collector.i = Len(files)
  /\ collector' = [collector EXCEPT !.ret = "ok"]
  /\ UNCHANGED <<dmVars, webVars, ureq, uloc, uwrites, ures, files, ch, workers>>

NextUpload ==
  \/ Spawn
  \/ \E w \in DOMAIN workers : UploadFile(w)
  \/ \E w \in DOMAIN workers : Send(w)
  \/ Receive
  \/ UploadFilesReturn

\* One call of UploadFiles.  Every goroutine that can run does so in the end,
\* and every UploadFile returns.
SpecUpload == InitUpload /\ [][NextUpload]_vars /\ WF_vars(NextUpload)

\* C23: UploadFiles starts one goroutine per file and returns: with one entry
\* per file when every upload succeeded, with no result and an error at the
\* first failed upload it receives; a goroutine that has its result can always
\* send it, so every goroutine ends, also after an early return.
C23_UploadFilesReturnsAndLeaksNone ==
  /\ [](\A w \in DOMAIN workers : workers[w] = "send" => ENABLED Send(w))
  /\ [](collector.ret = "ok" =>
          /\ Len(collector.result) = Len(files)
          /\ \A f \in DOMAIN files :
               Cardinality({ k \in DOMAIN collector.result : collector.result[k] = f }) = 1
          /\ \A f \in DOMAIN files : files[f] = "")
  /\ [](collector.ret = "err" =>
          /\ collector.result = <<>>
          /\ \E f \in DOMAIN files : files[f] # "")
  /\ [][(ch # <<>> /\ ch' = Tail(ch) /\ Head(ch).err # "") => collector'.ret = "err"]_vars
  /\ <>(collector.ret # "none")
  /\ \A w \in 1..MaxFiles : <>[](w \in DOMAIN workers => workers[w] = "done")

\* UploadFiles returned at the first result, a failure; the other two
\* goroutines have ended with their results left in the channel.
C23_Witness ==
  /\ Len(files) = 3
  /\ collector.ret = "err"
  /\ collector.i = 0
  /\ Len(ch) = 2
  /\ \A w \in DOMAIN workers : workers[w] = "done"

====
